---- MODULE Spec2Model ----
(***************************************************************************)
(* A model of src/index.py: the text filter (filter_text), the lexical     *)
(* metrics (calculate_ttr_spacy), the clause analysis (calculate_dcr and   *)
(* its recursive walk get_coordinated_clauses) and the per-author loop     *)
(* (analyze_student_writings).                                             *)
(*                                                                         *)
(* Strings are sequences of one-character strings.  The annotation engine  *)
(* (spaCy) and the spelling oracle (pyspellchecker) are external: the      *)
(* model draws their outputs from bounded sets.  Python floats are         *)
(* modelled as exact fractions [num, den].                                 *)
(***************************************************************************)
EXTENDS Integers, Sequences, FiniteSets

VARIABLES
    \* ---- filter_text ----
    text,        \* the raw input text of filter_text
    oracle,      \* the spelling oracle: [known, fix]
    filtered,    \* filter_text(text)
    refiltered,  \* filter_text(filter_text(text))
    fpc,         \* "input" | "filtered" | "refiltered" | "idle"
    \* ---- calculate_ttr_spacy / calculate_dcr ----
    doc,         \* the annotated document: [tokens, sents]
    window,      \* segment_length
    lex,         \* what calculate_ttr_spacy returned
    dependent_clauses,
    independent_clauses,
    si,          \* index of the sentence the loop of calculate_dcr is at
    stack,       \* call stack of get_coordinated_clauses
    calls,       \* per token, how often get_coordinated_clauses was entered
    dcr,         \* what calculate_dcr returned
    mpc,         \* "ttr" | "dep" | "sent" | "walk" | "done" | "raised" | "idle"
    \* ---- analyze_student_writings ----
    files,       \* the sorted text files of the folder
    fi,          \* index of the file the loop is at
    results,     \* the local list results
    returned,    \* what the caller received
    rpc          \* "loop" | "returned" | "raised" | "idle"

vars == <<text, oracle, filtered, refiltered, fpc,
          doc, window, lex, dependent_clauses, independent_clauses, si, stack,
          calls, dcr, mpc,
          files, fi, results, returned, rpc>>

filterVars == <<text, oracle, filtered, refiltered, fpc>>
metricVars == <<doc, window, lex, dependent_clauses, independent_clauses, si,
                stack, calls, dcr, mpc>>
runVars == <<files, fi, results, returned, rpc>>

\* ------------------------------------------------------------------ bounds

MaxTextLen == 3
MaxTokens == 3
MaxWindow == 3
MaxFiles == 3

\* The characters input texts are drawn from: lowercase letters, an
\* uppercase letter, the apostrophe, a blank and a character outside the
\* allowed set.
Alphabet == {"i", "d", "r", "n", "t", "'", " ", "T", "#"}

\* the sequences over S of length n
SeqsOfLen(S, n) == [1..n -> S]

\* ------------------------------------------------------------ filter_text

UpperLetters == <<"A", "B", "C", "D", "E", "F", "G", "H", "I", "J", "K", "L", "M",
                  "N", "O", "P", "Q", "R", "S", "T", "U", "V", "W", "X", "Y", "Z">>
LowerLetters == <<"a", "b", "c", "d", "e", "f", "g", "h", "i", "j", "k", "l", "m",
                  "n", "o", "p", "q", "r", "s", "t", "u", "v", "w", "x", "y", "z">>

Range(s) == {s[i] : i \in 1..Len(s)}
UpperSet == Range(UpperLetters)

\* str.lower(), one character
LowerChar(c) ==
    IF c \in UpperSet
    THEN LowerLetters[CHOOSE i \in 1..Len(UpperLetters) : UpperLetters[i] = c]
    ELSE c

\* text.lower()
Lower(s) == [i \in 1..Len(s) |-> LowerChar(s[i])]

\* the dict contractions, in insertion order
contractions ==
    << [old |-> <<"n", "'", "t">>, new |-> <<" ", "n", "o", "t">>],
       [old |-> <<"'", "l", "l">>, new |-> <<" ", "w", "i", "l", "l">>],
       [old |-> <<"'", "v", "e">>, new |-> <<" ", "h", "a", "v", "e">>],
       [old |-> <<"'", "r", "e">>, new |-> <<" ", "a", "r", "e">>],
       [old |-> <<"'", "d">>, new |-> <<" ", "w", "o", "u", "l", "d">>],
       [old |-> <<"'", "m">>, new |-> <<" ", "a", "m">>] >>

StartsWith(s, p) == Len(s) >= Len(p) /\ SubSeq(s, 1, Len(p)) = p

\* str.replace(old, new): leftmost, non-overlapping occurrences
RECURSIVE Replace(_, _, _)
Replace(s, old, new) ==
    IF s = <<>> THEN <<>>
    ELSE IF StartsWith(s, old)
         THEN new \o Replace(SubSeq(s, Len(old) + 1, Len(s)), old, new)
         ELSE <<Head(s)>> \o Replace(Tail(s), old, new)

\* for contraction, expansion in contractions.items(): text = text.replace(..)
RECURSIVE ExpandFrom(_, _)
ExpandFrom(s, k) ==
    IF k > Len(contractions) THEN s
    ELSE ExpandFrom(Replace(s, contractions[k].old, contractions[k].new), k + 1)

ExpandContractions(s) == ExpandFrom(s, 1)

\* \s of the regular expressions, str.split() and str.strip()
Whitespace == {" ", "\t", "\n", "\r", "\f"}

\* the characters the class [^a-z\s.,!?;:()\'] does not match
AllowedChars ==
    Range(LowerLetters) \cup Whitespace \cup {".", ",", "!", "?", ";", ":", "(", ")", "'"}

\* re.sub(r'[^a-z\s.,!?;:()\']', ' ', text)
StripChars(s) == [i \in 1..Len(s) |-> IF s[i] \in AllowedChars THEN s[i] ELSE " "]

\* re.sub(r'\s+', ' ', text)
RECURSIVE CollapseWs(_)
CollapseWs(s) ==
    IF s = <<>> THEN <<>>
    ELSE IF Head(s) \in Whitespace
         THEN IF Len(s) >= 2 /\ s[2] \in Whitespace
              THEN CollapseWs(Tail(s))
              ELSE <<" ">> \o CollapseWs(Tail(s))
         ELSE <<Head(s)>> \o CollapseWs(Tail(s))

\* text.split(): the maximal runs of non-whitespace characters
RECURSIVE SplitFrom(_, _, _)
SplitFrom(s, cur, acc) ==
    IF s = <<>> THEN (IF cur = <<>> THEN acc ELSE Append(acc, cur))
    ELSE IF Head(s) \in Whitespace
         THEN SplitFrom(Tail(s), <<>>, IF cur = <<>> THEN acc ELSE Append(acc, cur))
         ELSE SplitFrom(Tail(s), Append(cur, Head(s)), acc)

Split(s) == SplitFrom(s, <<>>, <<>>)

\* the list of abbreviations that are kept unchecked
abbreviations ==
    { <<"m", "r">>, <<"m", "r", "s">>, <<"m", "s">>, <<"d", "r">>,
      <<"p", "r", "o", "f">>, <<"e", "t", "c">>, <<"v", "s">>, <<"e", "g">>,
      <<"i", "e">> }

\* spell.correction(word): the word itself when the oracle knows it, else
\* the oracle's correction (NoCorrection: it has none to offer)
NoCorrection == <<"<None>">>
correction(o, word) == IF word \in o.known THEN word ELSE o.fix

\* Kept, had the loop appended the oracle's correction instead of the word
KeepsSubstituted(o, word) ==
    IF Len(word) = 1 /\ word \notin {<<"a">>, <<"i">>} THEN <<>>
    ELSE IF word \in abbreviations THEN <<word>>
    ELSE IF correction(o, word) # NoCorrection THEN <<correction(o, word)>>
    ELSE <<>>
\* Kept, had the loop spell-checked the abbreviations too
KeepsNoAbbreviations(o, word) ==
    IF Len(word) = 1 /\ word \notin {<<"a">>, <<"i">>} THEN <<>>
    ELSE IF correction(o, word) = word THEN <<word>>
    ELSE <<>>
\* one iteration of "for word in words": what it appends to valid_words
Kept(o, word) ==
    IF Len(word) = 1 /\ word \notin {<<"a">>, <<"i">>} THEN <<>>
    ELSE IF word \in abbreviations THEN <<word>>
    ELSE IF correction(o, word) = word THEN <<word>>
    ELSE <<>>

\* for word in words: ...
RECURSIVE ValidWords(_, _, _, _)
ValidWords(o, words, k, valid_words) ==
    IF k > Len(words) THEN valid_words
    ELSE ValidWords(o, words, k + 1, valid_words \o Kept(o, words[k]))

\* ' '.join(valid_words)
RECURSIVE Join(_)
Join(words) ==
    IF words = <<>> THEN <<>>
    ELSE IF Len(words) = 1 THEN words[1]
    ELSE words[1] \o <<" ">> \o Join(Tail(words))

\* str.strip()
RECURSIVE LStrip(_)
LStrip(s) == IF s # <<>> /\ Head(s) \in Whitespace THEN LStrip(Tail(s)) ELSE s
RECURSIVE RStrip(_)
RStrip(s) ==
    IF s # <<>> /\ s[Len(s)] \in Whitespace THEN RStrip(SubSeq(s, 1, Len(s) - 1)) ELSE s
Strip(s) == RStrip(LStrip(s))

\* Normalize, had the contractions been expanded before lowercasing
NormalizeLateLower(s) == CollapseWs(StripChars(Lower(ExpandContractions(s))))
\* the text after the two re.sub calls, before it is split
Normalize(s) == CollapseWs(StripChars(ExpandContractions(Lower(s))))

\* filter_text(text) with the spelling oracle o
filter_text(o, s) ==
    Strip(CollapseWs(Join(ValidWords(o, Split(Normalize(s)), 1, <<>>))))

\* ------------------------------------------------- calculate_ttr_spacy

\* Python's true division on ints, kept exact: a fraction whose den is 0
\* stands for the ZeroDivisionError the division raises
Div(n, d) == [num |-> n, den |-> d]
\* the int 0 of "... if words else 0"
Zero == [num |-> 0, den |-> 1]
IsError(q) == q.den = 0

\* float addition and division by an int, kept exact
FracAdd(a, b) ==
    IF IsError(a) \/ IsError(b) THEN Div(0, 0)
    ELSE [num |-> a.num * b.den + b.num * a.den, den |-> a.den * b.den]
FracDivInt(a, k) == [num |-> a.num, den |-> a.den * k]

\* words = [token.text for token in doc if token.is_alpha]
RECURSIVE AlphaWords(_)
AlphaWords(tokens) ==
    IF tokens = <<>> THEN <<>>
    ELSE (IF Head(tokens).is_alpha THEN <<Head(tokens).text>> ELSE <<>>)
             \o AlphaWords(Tail(tokens))

\* Ttr, had the division not been guarded by "if words"
TtrUnguarded(words) == Div(Cardinality(Range(words)), Len(words))
\* ttr = len(unique_words) / len(words) if words else 0
Ttr(words) ==
    IF words # <<>> THEN Div(Cardinality(Range(words)), Len(words)) ELSE Zero

\* words[i:j], a Python slice with 0 <= i <= j
Slice(words, i, j) ==
    SubSeq(words, i + 1, IF j < Len(words) THEN j ELSE Len(words))

\* WindowStarts, had the loop been range(len(words) - segment_length)
WindowStartsShort(words, segment_length) == Len(words) - segment_length
\* the length of range(len(words) - segment_length + 1)
WindowStarts(words, segment_length) == Len(words) - segment_length + 1

\* for i in range(...): window = words[i:i + segment_length];
\*     ttr_values.append(len(set(window)) / len(window))
RECURSIVE TtrValues(_, _, _, _)
TtrValues(words, segment_length, i, ttr_values) ==
    IF i >= WindowStarts(words, segment_length) THEN ttr_values
    ELSE LET win == Slice(words, i, i + segment_length)
         IN  TtrValues(words, segment_length, i + 1,
                       Append(ttr_values, Div(Cardinality(Range(win)), Len(win))))

\* sum(ttr_values)
RECURSIVE Sum(_, _)
Sum(values, acc) ==
    IF values = <<>> THEN acc ELSE Sum(Tail(values), FracAdd(acc, Head(values)))

\* the if/else that computes mattr
Mattr(words, segment_length) ==
    IF Len(words) < segment_length THEN Ttr(words)
    ELSE LET ttr_values == TtrValues(words, segment_length, 0, <<>>)
         IN  FracDivInt(Sum(ttr_values, Zero), Len(ttr_values))

LexicalPos == {"NOUN", "VERB", "ADJ", "ADV"}

\* LexicalWords, had the comprehension not tested token.is_alpha
LexicalWordsAnyToken(tokens) ==
    LET Lexical(t) == t.pos \in LexicalPos IN SelectSeq(tokens, Lexical)
\* lexical_words = [token.text for token in doc
\*                  if token.is_alpha and token.pos_ in [...]]
LexicalWords(tokens) ==
    LET Lexical(t) == t.is_alpha /\ t.pos \in LexicalPos IN SelectSeq(tokens, Lexical)

\* lexical_density = len(lexical_words) / len(words) if words else 0
LexicalDensity(tokens, words) ==
    IF words # <<>> THEN Div(Len(LexicalWords(tokens)), Len(words)) ELSE Zero

\* calculate_ttr_spacy, from the annotated tokens on
calculate_ttr_spacy(tokens, segment_length) ==
    LET words == AlphaWords(tokens)
    IN  [ttr |-> Ttr(words),
         mattr |-> Mattr(words, segment_length),
         token_count |-> Len(words),
         unique_count |-> Cardinality(Range(words)),
         lexical_density |-> LexicalDensity(tokens, words)]

\* ------------------------------------------------------- calculate_dcr

DependentLabels == {"ccomp", "advcl", "acl", "relcl", "xcomp", "pcomp"}

\* the first loop: the tokens whose dep_ is a dependent-clause label
RECURSIVE CountDependent(_)
CountDependent(tokens) ==
    IF tokens = <<>> THEN 0
    ELSE (IF Head(tokens).dep \in DependentLabels THEN 1 ELSE 0)
             + CountDependent(Tail(tokens))

\* the members of a set of token indices, in document order
RECURSIVE InOrder(_)
InOrder(S) ==
    IF S = {} THEN <<>>
    ELSE LET m == CHOOSE x \in S : \A y \in S : x <= y
         IN  <<m>> \o InOrder(S \ {m})

\* [token for token in sent if token.dep_ == "ROOT"]
RootsOf(tokens, sent) ==
    LET IsRoot(t) == tokens[t].dep = "ROOT" IN SelectSeq(sent, IsRoot)

\* the tokens below t, t included (token.subtree), as a set
RECURSIVE Below(_, _, _)
Below(tokens, S, k) ==
    IF k = 0 THEN S
    ELSE Below(tokens, S \cup {c \in 1..Len(tokens) : tokens[c].head \in S}, k - 1)

\* Children, had the loop run over the tokens below t instead
ChildrenAsDescendants(tokens, t) == InOrder(Below(tokens, {t}, Len(tokens)) \ {t})
\* token.children: the tokens whose head is t, in document order
Children(tokens, t) ==
    InOrder({c \in 1..Len(tokens) : c # t /\ tokens[c].head = t})

\* clause_text, " ".join([t.text for t in child.subtree]): kept as the
\* tokens of the subtree in document order
ClauseText(tokens, child) == InOrder(Below(tokens, {child}, Len(tokens)))

\* a frame of get_coordinated_clauses(token): the children still to visit
\* and the local list clauses
Frame(tokens, t) == [token |-> t, kids |-> Children(tokens, t), clauses |-> <<>>]

\* IndependentAfter, had the coordinated clauses not been added
IndependentAfterMainOnly(independent, coordinated_clauses) == independent + 1
\* if root: independent_clauses += 1 (a Token is truthy: its text is never
\* empty); independent_clauses += len(coordinated_clauses)
IndependentAfter(independent, coordinated_clauses) ==
    independent + 1 + Len(coordinated_clauses)

\* total_clauses and dcr, and what calculate_dcr returns
DcrResult(independent, dependent) ==
    LET total_clauses == independent + dependent
    IN  [dcr |-> IF total_clauses > 0 THEN Div(dependent, total_clauses) ELSE Zero,
         dependent_clauses |-> dependent,
         total_clauses |-> total_clauses]

\* ---- the states the other components rest in while one of them runs ----

IdleFilter ==
    /\ text = <<>>
    /\ oracle = [known |-> {}, fix |-> NoCorrection]
    /\ filtered = <<>>
    /\ refiltered = <<>>
    /\ fpc = "idle"

IdleMetrics ==
    /\ doc = [tokens |-> <<>>, sents |-> <<>>]
    /\ window = 1
    /\ lex = <<>>
    /\ dependent_clauses = 0
    /\ independent_clauses = 0
    /\ si = 1
    /\ stack = <<>>
    /\ calls = <<>>
    /\ dcr = <<>>
    /\ mpc = "idle"

IdleRun ==
    /\ files = <<>>
    /\ fi = 1
    /\ results = <<>>
    /\ returned = <<>>
    /\ rpc = "idle"

\* ------------------------------------------------- filter_text, as a run

\* the words the bounded oracles may know, and the corrections they offer
KnownPool == { <<"n", "o", "t">>, <<"w", "o", "u", "l", "d">>, <<"n", "'", "t">> }
FixPool == { <<"i">>, NoCorrection }
Oracles == [known : SUBSET KnownPool, fix : FixPool]

InitFilter ==
    /\ \E n \in 0..MaxTextLen : text \in SeqsOfLen(Alphabet, n)
    /\ oracle \in Oracles
    /\ filtered = <<>>
    /\ refiltered = <<>>
    /\ fpc = "input"
    /\ IdleMetrics
    /\ IdleRun

\* a call filter_text(text)
FilterText ==
    /\ fpc = "input"
    /\ filtered' = filter_text(oracle, text)
    /\ fpc' = "filtered"
    /\ UNCHANGED <<text, oracle, refiltered, metricVars, runVars>>

\* a second call, on the text the first one returned
Refilter ==
    /\ fpc = "filtered"
    /\ refiltered' = filter_text(oracle, filtered)
    /\ fpc' = "refiltered"
    /\ UNCHANGED <<text, oracle, filtered, metricVars, runVars>>

NextFilter == FilterText \/ Refilter

SpecFilter == InitFilter /\ [][NextFilter]_vars

\* --------------------- calculate_ttr_spacy and calculate_dcr, as a run

\* what the annotation engine may return, within the bounds: either the
\* lexical fields vary over one fixed parse (a root, then a ccomp and a conj
\* child in turn), or the parse varies over fixed lexical fields (the two
\* functions read disjoint fields).  Both calls annotate the same lowercase
\* filtered text, so they see the same document.
LexFields == [text : {"x", "y"}, is_alpha : BOOLEAN, pos : {"NOUN", "DET"}]

FlatDoc(fields) ==
    [tokens |-> [i \in 1..Len(fields) |->
                    [text |-> fields[i].text, is_alpha |-> fields[i].is_alpha,
                     pos |-> fields[i].pos,
                     dep |-> IF i = 1 THEN "ROOT"
                             ELSE IF i % 2 = 0 THEN "ccomp" ELSE "conj",
                     head |-> 1]],
     sents |-> IF fields = <<>> THEN <<>> ELSE << [i \in 1..Len(fields) |-> i] >>]

RECURSIVE Up(_, _, _)
Up(h, i, k) == IF k = 0 THEN i ELSE Up(h, h[i], k - 1)

\* every token's chain of heads ends in a token that is its own head
IsForest(h, n) == \A i \in 1..n : LET r == Up(h, i, n) IN h[r] = r

ParseLabels == {"ROOT", "conj", "ccomp", "nsubj"}

\* the sentences a set of boundaries cuts 1..n into
RECURSIVE SentsFrom(_, _, _, _)
SentsFrom(n, cuts, i, cur) ==
    IF i > n THEN (IF cur = <<>> THEN <<>> ELSE <<cur>>)
    ELSE IF i \in cuts
         THEN <<Append(cur, i)>> \o SentsFrom(n, cuts, i + 1, <<>>)
         ELSE SentsFrom(n, cuts, i + 1, Append(cur, i))

ParsedDoc(n, h, d, cuts) ==
    [tokens |-> [i \in 1..n |->
                    [text |-> "x", is_alpha |-> TRUE, pos |-> "NOUN",
                     dep |-> d[i], head |-> h[i]]],
     sents |-> SentsFrom(n, cuts, 1, <<>>)]

\* the head functions over n tokens are forests, and a token is labelled
\* ROOT exactly when it is its own head
WellFormedParse(n, h, d) ==
    /\ IsForest(h, n)
    /\ \A i \in 1..n : (d[i] = "ROOT") <=> (h[i] = i)

LexDocInit ==
    \E n \in 0..MaxTokens : \E f \in SeqsOfLen(LexFields, n) : doc = FlatDoc(f)

ParsedDocInit ==
    \E n \in 0..MaxTokens :
        \E h \in [1..n -> 1..n], d \in [1..n -> ParseLabels], cuts \in SUBSET (1..(n - 1)) :
            /\ WellFormedParse(n, h, d)
            /\ doc = ParsedDoc(n, h, d, cuts)

MetricsStart ==
    /\ lex = <<>>
    /\ dependent_clauses = 0
    /\ independent_clauses = 0
    /\ si = 1
    /\ stack = <<>>
    /\ calls = [t \in 1..Len(doc.tokens) |-> 0]
    /\ dcr = <<>>
    /\ mpc = "ttr"
    /\ IdleFilter
    /\ IdleRun

InitMetrics ==
    /\ \/ LexDocInit /\ window \in 1..MaxWindow
       \/ ParsedDocInit /\ window = 1
    /\ MetricsStart

\* calculate_ttr_spacy(text, segment_length), from doc = nlp(...) on
ComputeTTR ==
    /\ mpc = "ttr"
    /\ lex' = calculate_ttr_spacy(doc.tokens, window)
    /\ mpc' = "dep"
    /\ UNCHANGED <<doc, window, dependent_clauses, independent_clauses, si, stack,
                   calls, dcr, filterVars, runVars>>

\* calculate_dcr: for token in doc: count the dependent clauses
DependentLoop ==
    /\ mpc = "dep"
    /\ dependent_clauses' = CountDependent(doc.tokens)
    /\ mpc' = "sent"
    /\ UNCHANGED <<doc, window, lex, independent_clauses, si, stack, calls, dcr,
                   filterVars, runVars>>

\* for sent in doc.sents: the sentence has no ROOT token, [...][0] raises
\* IndexError
SentNoRoot ==
    /\ mpc = "sent"
    /\ si <= Len(doc.sents)
    /\ RootsOf(doc.tokens, doc.sents[si]) = <<>>
    /\ mpc' = "raised"
    /\ UNCHANGED <<doc, window, lex, dependent_clauses, independent_clauses, si,
                   stack, calls, dcr, filterVars, runVars>>

\* for sent in doc.sents: root = [...][0]; get_coordinated_clauses(root) is
\* entered
SentRoot ==
    /\ mpc = "sent"
    /\ si <= Len(doc.sents)
    /\ RootsOf(doc.tokens, doc.sents[si]) # <<>>
    /\ LET root == RootsOf(doc.tokens, doc.sents[si])[1]
       IN  /\ stack' = <<Frame(doc.tokens, root)>>
           /\ calls' = [calls EXCEPT ![root] = @ + 1]
    /\ mpc' = "walk"
    /\ UNCHANGED <<doc, window, lex, dependent_clauses, independent_clauses, si,
                   dcr, filterVars, runVars>>

\* for child in token.children: child.dep_ == "conj": the clause is
\* appended and get_coordinated_clauses(child) is entered
WalkConj ==
    /\ mpc = "walk"
    /\ stack[Len(stack)].kids # <<>>
    /\ LET top == stack[Len(stack)]
           child == Head(top.kids)
       IN  /\ doc.tokens[child].dep = "conj"
           /\ stack' = Append(
                  [stack EXCEPT ![Len(stack)] =
                      [top EXCEPT !.kids = Tail(top.kids),
                                  !.clauses = Append(top.clauses,
                                                     ClauseText(doc.tokens, child))]],
                  Frame(doc.tokens, child))
           /\ calls' = [calls EXCEPT ![child] = @ + 1]
    /\ UNCHANGED <<doc, window, lex, dependent_clauses, independent_clauses, si,
                   dcr, mpc, filterVars, runVars>>

\* for child in token.children: child.dep_ is not "conj"
WalkSkip ==
    /\ mpc = "walk"
    /\ stack[Len(stack)].kids # <<>>
    /\ LET top == stack[Len(stack)]
       IN  /\ doc.tokens[Head(top.kids)].dep # "conj"
           /\ stack' = [stack EXCEPT ![Len(stack)] = [top EXCEPT !.kids = Tail(top.kids)]]
    /\ UNCHANGED <<doc, window, lex, dependent_clauses, independent_clauses, si,
                   calls, dcr, mpc, filterVars, runVars>>

\* return clauses, to the recursive call: clauses.extend(...)
WalkReturn ==
    /\ mpc = "walk"
    /\ Len(stack) >= 2
    /\ stack[Len(stack)].kids = <<>>
    /\ LET caller == stack[Len(stack) - 1]
       IN  stack' = [SubSeq(stack, 1, Len(stack) - 1) EXCEPT ![Len(stack) - 1] =
                        [caller EXCEPT !.clauses = @ \o stack[Len(stack)].clauses]]
    /\ UNCHANGED <<doc, window, lex, dependent_clauses, independent_clauses, si,
                   calls, dcr, mpc, filterVars, runVars>>

\* return clauses, to the sentence loop: the main clause and the
\* coordinated clauses are counted
SentEnd ==
    /\ mpc = "walk"
    /\ Len(stack) = 1
    /\ stack[1].kids = <<>>
    /\ independent_clauses' = IndependentAfter(independent_clauses, stack[1].clauses)
    /\ stack' = <<>>
    /\ si' = si + 1
    /\ mpc' = "sent"
    /\ UNCHANGED <<doc, window, lex, dependent_clauses, calls, dcr, filterVars, runVars>>

\* after the sentence loop: total_clauses, dcr, return
DcrReturn ==
    /\ mpc = "sent"
    /\ si > Len(doc.sents)
    /\ dcr' = DcrResult(independent_clauses, dependent_clauses)
    /\ mpc' = "done"
    /\ UNCHANGED <<doc, window, lex, dependent_clauses, independent_clauses, si,
                   stack, calls, filterVars, runVars>>

NextMetrics ==
    \/ ComputeTTR
    \/ DependentLoop
    \/ SentNoRoot
    \/ SentRoot
    \/ WalkConj
    \/ WalkSkip
    \/ WalkReturn
    \/ SentEnd
    \/ DcrReturn

SpecMetrics == InitMetrics /\ [][NextMetrics]_vars

\* calculate_dcr alone matters to the walk: the runs over the parsed
\* documents
InitWalk ==
    /\ ParsedDocInit
    /\ window = 1
    /\ MetricsStart

SpecWalk == InitWalk /\ [][NextMetrics]_vars

\* -------------------------------------------- analyze_student_writings

\* what happens when a file is processed: it is analysed, open() or read()
\* raises, the annotation engine raises inside calculate_ttr_spacy, or
\* calculate_dcr raises IndexError on a sentence without a ROOT token
Outcomes == {"ok", "io_error", "annotation_error", "no_root"}

\* text_files = sorted(folder_path.glob('*.txt')): file k of the sorted
\* list is named k
FileList(o) == [k \in 1..Len(o) |-> [name |-> k, outcome |-> o[k]]]

\* the dict appended to results (the metrics are those of the two calls)
ResultRecord(file) == [file_name |-> file.name, date |-> file.name]

InitRun ==
    /\ \E n \in 0..MaxFiles : \E o \in SeqsOfLen(Outcomes, n) : files = FileList(o)
    /\ fi = 1
    /\ results = <<>>
    /\ returned = <<>>
    /\ rpc = "loop"
    /\ IdleFilter
    /\ IdleMetrics

\* one iteration of "for file_path in text_files" that raises nothing
ProcessFile ==
    /\ rpc = "loop"
    /\ fi <= Len(files)
    /\ files[fi].outcome = "ok"
    /\ results' = Append(results, ResultRecord(files[fi]))
    /\ fi' = fi + 1
    /\ UNCHANGED <<files, returned, rpc, filterVars, metricVars>>

\* one iteration in which open, read, calculate_ttr_spacy or calculate_dcr
\* raises: nothing catches it, the exception leaves the function and the
\* caller receives no list
FileRaises ==
    /\ rpc = "loop"
    /\ fi <= Len(files)
    /\ files[fi].outcome # "ok"
    /\ rpc' = "raised"
    /\ UNCHANGED <<files, fi, results, returned, filterVars, metricVars>>

\* return results
ReturnResults ==
    /\ rpc = "loop"
    /\ fi > Len(files)
    /\ returned' = results
    /\ rpc' = "returned"
    /\ UNCHANGED <<files, fi, results, filterVars, metricVars>>

NextRun == ProcessFile \/ FileRaises \/ ReturnResults

SpecRun == InitRun /\ [][NextRun]_vars

\* ------------------------------------------------- claims on filter_text

\* the keep rule as claimed: "a" and "i" are kept as they are
ClaimedKeepRule(o, word) ==
    \/ word \in {<<"a">>, <<"i">>}
    \/ /\ Len(word) # 1
       /\ \/ word \in abbreviations
          \/ correction(o, word) = word

\* the keep rule: single characters other than "a" and "i" never pass,
\* abbreviations pass without the oracle, every other word (with "a" and
\* "i") passes iff the oracle returns it unchanged
PassesKeepRule(o, word) ==
    /\ Len(word) = 1 => word \in {<<"a">>, <<"i">>}
    /\ \/ word \in abbreviations
       \/ correction(o, word) = word

ClaimedKeptSubsequence(o, words) ==
    LET Passes(w) == ClaimedKeepRule(o, w) IN SelectSeq(words, Passes)

\* the order-preserving subsequence of words that pass the keep rule
KeptSubsequence(o, words) ==
    LET Passes(w) == PassesKeepRule(o, w) IN SelectSeq(words, Passes)

\* s holds the contraction suffix old somewhere
Occurs(s, old) ==
    \E i \in 1..Len(s) : i + Len(old) - 1 <= Len(s) /\ SubSeq(s, i, i + Len(old) - 1) = old

HasContraction(s) == \E k \in 1..Len(contractions) : Occurs(s, contractions[k].old)

\* s is made only of allowed lowercase characters and of words the keep
\* rule accepts
AlreadyValid(o, s) ==
    /\ \A i \in 1..Len(s) : s[i] \in AllowedChars
    /\ \A w \in Range(Split(s)) : PassesKeepRule(o, w)

\* C5 (as claimed): the output of filter_text has neither more characters
\* nor more whitespace-separated tokens than the input text, every output
\* token is a token of the input, and empty input yields empty output.
C5_NeverLongerThanInput ==
    fpc \in {"filtered", "refiltered"} =>
        /\ Len(filtered) <= Len(text)
        /\ Len(Split(filtered)) <= Len(Split(text))
        /\ Range(Split(filtered)) \subseteq Range(Split(text))
        /\ (text = <<>> => filtered = <<>>)

\* C5 (amended): the output of filter_text has neither more characters nor
\* more tokens than the normalized text (the input lowercased, contractions
\* expanded, disallowed characters blanked, whitespace collapsed), every
\* output token is a token of the normalized text, and empty input yields
\* empty output.
C5_NeverLongerThanNormalized ==
    fpc \in {"filtered", "refiltered"} =>
        LET normalized == Normalize(text)
            out == Split(filtered)
        IN  /\ Len(filtered) <= Len(normalized)
            /\ Len(out) <= Len(Split(normalized))
            /\ Range(out) \subseteq Range(Split(normalized))
            /\ (text = <<>> => filtered = <<>>)

\* a filtered text that kept one word and dropped another
C5_Witness ==
    /\ fpc = "filtered"
    /\ filtered # <<>>
    /\ Len(Split(filtered)) < Len(Split(Normalize(text)))

\* C6 (as claimed): a text made only of lowercase words within the allowed
\* character set that the keep rule accepts comes out of filter_text with
\* its words unchanged, and filter_text(filter_text(x)) = filter_text(x).
C6_IdempotentOnKeptWords ==
    /\ (fpc \in {"filtered", "refiltered"} /\ AlreadyValid(oracle, text))
           => Split(filtered) = Split(text)
    /\ fpc = "refiltered" => refiltered = filtered

\* C6 (amended): a text made only of lowercase words within the allowed
\* character set that the keep rule accepts, and that holds no contraction
\* suffix, comes out of filter_text with its words unchanged; and for every
\* input x, filter_text(filter_text(x)) = filter_text(x).
C6_IdempotentWithoutContractions ==
    /\ (fpc \in {"filtered", "refiltered"} /\ AlreadyValid(oracle, text)
            /\ ~HasContraction(text))
           => Split(filtered) = Split(text)
    /\ fpc = "refiltered" => refiltered = filtered

\* the filter was applied twice to a text whose first pass changed it and
\* kept two words
C6_Witness ==
    /\ fpc = "refiltered"
    /\ filtered # text
    /\ Len(Split(filtered)) >= 2
    /\ refiltered = filtered

\* C9 (as claimed): the tokens of the output of filter_text are exactly the
\* order-preserving subsequence of the normalized tokens that pass the keep
\* rule: single characters dropped except "a" and "i", which are kept;
\* abbreviations kept without the oracle; every other token kept iff
\* oracle(token) = token.
C9_KeepsAandI ==
    fpc \in {"filtered", "refiltered"} =>
        Split(filtered) = ClaimedKeptSubsequence(oracle, Split(Normalize(text)))

\* C9 (amended): the tokens of the output of filter_text are exactly the
\* order-preserving subsequence of the normalized tokens that pass the keep
\* rule: single characters other than "a" and "i" are dropped, abbreviations
\* are kept without the oracle, and every other token, "a" and "i" included,
\* is kept iff oracle(token) = token.  No token is replaced by the oracle's
\* correction.
C9_OutputIsKeptSubsequence ==
    fpc \in {"filtered", "refiltered"} =>
        LET kept == KeptSubsequence(oracle, Split(Normalize(text)))
        IN  /\ Split(filtered) = kept
            /\ filtered = Join(kept)

\* a text with a contraction was filtered: a token was kept, another dropped
C9_Witness ==
    /\ fpc = "filtered"
    /\ HasContraction(Lower(text))
    /\ filtered # <<>>
    /\ \E w \in Range(Split(Normalize(text))) : ~PassesKeepRule(oracle, w)

\* ------------------------------- claims on the metrics and the clauses

\* 0 <= q <= 1, for a fraction that is no error
InUnit(q) == q.den > 0 /\ 0 <= q.num /\ q.num <= q.den
FracEq(a, b) == a.den > 0 /\ b.den > 0 /\ a.num * b.den = b.num * a.den

RECURSIVE SumOver(_, _, _)
SumOver(F(_), lo, hi) == IF lo > hi THEN 0 ELSE F(lo) + SumOver(F, lo + 1, hi)

\* the tokens linked to token r by head-to-child edges whose children are
\* all labelled conj
RECURSIVE ConjReach(_, _)
ConjReach(tokens, S) ==
    LET more == {c \in 1..Len(tokens) :
                    c \notin S /\ tokens[c].head \in S /\ tokens[c].dep = "conj"}
    IN  IF more = {} THEN S ELSE ConjReach(tokens, S \cup more)

RootSet(D, k) == {t \in Range(D.sents[k]) : D.tokens[t].dep = "ROOT"}
CoordinatedOf(D, k) ==
    LET r == CHOOSE t \in RootSet(D, k) : \A u \in RootSet(D, k) : t <= u
    IN  Cardinality(ConjReach(D.tokens, {r}) \ {r})

\* the independent clauses of the sentences that have a ROOT token
IndependentOfRooted(D) ==
    LET Count(k) == IF RootSet(D, k) = {} THEN 0 ELSE 1 + CoordinatedOf(D, k)
    IN  SumOver(Count, 1, Len(D.sents))

\* C1: a sentence without a ROOT token is skipped by calculate_dcr: the
\* call raises no error, the sentence adds nothing to the independent
\* clauses and the other sentences are still counted.
C1_RootlessSentenceSkipped ==
    /\ mpc # "raised"
    /\ mpc = "done" =>
          dcr.total_clauses - dcr.dependent_clauses = IndependentOfRooted(doc)

WordsOf(D) ==
    LET Alpha(t) == t.is_alpha
        alpha == SelectSeq(D.tokens, Alpha)
    IN  [i \in 1..Len(alpha) |-> alpha[i].text]
DistinctIn(words, i, w) == Cardinality({words[j] : j \in i..(i + w - 1)})

\* C4: with n alphabetic tokens and window w >= 1, mattr is ttr itself
\* (unique_count / n, or 0 when n = 0) if n < w, and otherwise the mean over
\* the n - w + 1 windows of w consecutive tokens (stride 1) of the window's
\* distinct count / w.
C4_MattrIsReference ==
    mpc \notin {"ttr", "idle"} =>
        LET words == WordsOf(doc)
            n == Len(words)
            Distinct(i) == DistinctIn(words, i, window)
        IN  IF n < window
            THEN /\ lex.mattr = lex.ttr
                 /\ lex.mattr = IF n = 0 THEN Zero
                                ELSE [num |-> Cardinality(Range(words)), den |-> n]
            ELSE /\ Len(TtrValues(AlphaWords(doc.tokens), window, 0, <<>>)) = n - window + 1
                 /\ FracEq(lex.mattr,
                           [num |-> SumOver(Distinct, 1, n - window + 1),
                            den |-> window * (n - window + 1)])
                 /\ n = window => FracEq(lex.mattr, lex.ttr)

\* a text with several windows whose ratios differ
C4_Witness ==
    /\ mpc = "dep"
    /\ lex.token_count > window
    /\ window >= 2
    /\ ~FracEq(lex.mattr, lex.ttr)

\* C7: when every sentence has a ROOT token, the independent clauses
\* (total_clauses - dependent_clauses) number the sentences plus the tokens
\* linked to a sentence's root (its first ROOT token) by a chain of conj
\* children; a conj token below a token that is not conj adds nothing.
C7_IndependentCount ==
    (mpc = "done" /\ \A k \in 1..Len(doc.sents) : RootSet(doc, k) # {}) =>
        LET Coordinated(k) == CoordinatedOf(doc, k)
        IN  dcr.total_clauses - dcr.dependent_clauses
                = Len(doc.sents) + SumOver(Coordinated, 1, Len(doc.sents))

\* calculate_dcr returned for one sentence that is a chain of two conj
\* tokens below its root
C7_Witness ==
    /\ mpc = "done"
    /\ Len(doc.sents) = 1
    /\ Cardinality(RootSet(doc, 1)) = 1
    /\ \E c \in 1..Len(doc.tokens) :
          /\ doc.tokens[c].dep = "conj"
          /\ doc.tokens[doc.tokens[c].head].dep = "conj"
    /\ dcr.total_clauses - dcr.dependent_clauses = 3

\* calculate_dcr returned for a sentence whose only conj token hangs below
\* a token that is not conj
C7_WitnessBelowOther ==
    /\ mpc = "done"
    /\ Len(doc.sents) = 1
    /\ \E c \in 1..Len(doc.tokens) :
          /\ doc.tokens[c].dep = "conj"
          /\ doc.tokens[doc.tokens[c].head].dep = "nsubj"
    /\ dcr.total_clauses - dcr.dependent_clauses = 1

\* C8: with no alphabetic token and no sentence, nothing raises and
\* ttr = mattr = lexical_density = dcr = 0, token_count = unique_count = 0,
\* dependent_clauses = total_clauses = 0.
C8_EmptyInputIsZero ==
    /\ (mpc \notin {"ttr", "idle"} /\ WordsOf(doc) = <<>>) =>
          /\ lex.ttr = Zero /\ lex.mattr = Zero /\ lex.lexical_density = Zero
          /\ lex.token_count = 0 /\ lex.unique_count = 0
    /\ (mpc \notin {"ttr", "dep", "idle"} /\ doc.sents = <<>>) =>
          /\ mpc # "raised"
          /\ mpc = "done" =>
                /\ dcr.dcr = Zero
                /\ dcr.dependent_clauses = 0
                /\ dcr.total_clauses = 0

\* both functions returned for the empty document
C8_Witness ==
    /\ mpc = "done"
    /\ doc.tokens = <<>>
    /\ doc.sents = <<>>

NoDuplicates(q) == \A i, j \in 1..Len(q) : q[i] = q[j] => i = j

\* what is left of the walk: the tokens not entered yet, the children not
\* visited yet and the calls not returned yet
WalkMeasure ==
    LET Kids(f) == Len(stack[f].kids)
    IN  (Len(doc.tokens) + 2) * Cardinality({t \in 1..Len(doc.tokens) : calls[t] = 0})
            + SumOver(Kids, 1, Len(stack)) + Len(stack)

\* C10: over a dependency tree the walk get_coordinated_clauses(root) ends
\* (while it runs a step is always possible and every step lessens what is
\* left of it), it is entered at most once per token, and no clause is
\* listed twice.
C10_WalkTerminatesOncePerToken ==
    /\ [](mpc # "idle" =>
            /\ \A t \in 1..Len(doc.tokens) : calls[t] <= 1
            /\ \A f \in 1..Len(stack) : NoDuplicates(stack[f].clauses)
            /\ mpc = "walk" => ENABLED (WalkConj \/ WalkSkip \/ WalkReturn \/ SentEnd))
    /\ [][mpc = "walk" => WalkMeasure' < WalkMeasure]_vars

\* the walk returned to the sentence loop after it had entered three tokens
C10_Witness ==
    /\ mpc = "sent"
    /\ si = 2
    /\ \A t \in 1..Len(doc.tokens) : calls[t] = 1
    /\ Len(doc.tokens) = 3
    /\ independent_clauses = 3

\* --------------------------------- claims on analyze_student_writings

\* the records of the files that can be analysed, in document order
RECURSIVE RecordsOfAnalysable(_)
RecordsOfAnalysable(fs) ==
    IF fs = <<>> THEN <<>>
    ELSE (IF Head(fs).outcome = "ok"
          THEN <<[file_name |-> Head(fs).name, date |-> Head(fs).name]>> ELSE <<>>)
             \o RecordsOfAnalysable(Tail(fs))

\* C2: a failure of the annotation engine or of reading one document is
\* fatal for that document only: when the run is over, the records of all
\* its siblings are in the returned results, in document order.
C2_FailureIsPerDocument ==
    rpc \in {"returned", "raised"} => returned = RecordsOfAnalysable(files)

====
